---- MODULE Spec2Model ----
(***************************************************************************)
(* A model of the loan-default preprocessing and EDA scripts               *)
(* (src/notebooks/01_exploratory_data_analysis.ipynb: preprocess.py and    *)
(* eda.py, kept in one notebook cell).                                     *)
(*                                                                         *)
(* Numbers.  A float64 cell is a record [nan, v]: nan marks a missing      *)
(* value (NaN), v is the value in fixed point, counted in units of 1/Unit. *)
(* Unit = 4 * 2: quantile(0.25) and quantile(0.75) interpolate linearly in *)
(* quarters of the distance between two order statistics, and thresholds   *)
(* are halves, so every quantile and every bound of a column of whole      *)
(* numbers is exact in these units.                                        *)
(*                                                                         *)
(* Frames.  A Series is a function from index labels to cells, a DataFrame *)
(* a function from column names to Series over one index.  Objects that    *)
(* the code may write to in place live in heap, named by allocation site.  *)
(***************************************************************************)
EXTENDS Integers, Sequences, FiniteSets, TLC

VARIABLES
    run,             \* which entry point runs: "preprocess", "eda" or "handle_outliers"
    pc,              \* the statement the run is at
    file,            \* what pd.read_csv finds at the path: [status, frame]
    args,            \* handle_outliers' arguments: [columns, method, threshold]
    heap,            \* DataFrame objects by allocation site (None when not allocated)
    data,            \* main's `data`: a reference into heap, or "None"
    X,               \* preprocess_data's `X` (handle_outliers' `data`): a reference
    result,          \* the reference handle_outliers returned, or "None"
    y,               \* preprocess_data's `y`: a Series, or None
    missing,         \* check_missing_values' return value: column -> count, or None
    split,           \* [X_train, X_test, y_train, y_test] frames, or None
    scaler,          \* the StandardScaler's state
    scaled,          \* [X_train_scaled, X_test_scaled], each a frame or None
    returned,        \* TRUE once preprocess_data has returned its 5-tuple
    written,         \* the output files written so far
    exception,       \* the exception that reached the top level, or "none"
    log,             \* the logger's entries, in order
    trace            \* history: the calls main made and how each ended

vars == <<run, pc, file, args, heap, data, X, result, y, missing, split, scaler,
          scaled, returned, written, exception, log, trace>>

(***************************************************************************)
(* Bounds of the model                                                     *)
(***************************************************************************)
MaxRows == 6
MaxLen == 4
MaxVal == 1

None == [none |-> TRUE]

(***************************************************************************)
(* float64 cells                                                           *)
(***************************************************************************)
Unit == 4 * 2

NaN == [nan |-> TRUE, v |-> 0]
Fix(u) == [nan |-> FALSE, v |-> u]
Num(r) == Fix(r * Unit)

\* IEEE comparisons: anything compared with NaN is False
Lt(a, b) == ~a.nan /\ ~b.nan /\ a.v < b.v
Gt(a, b) == ~a.nan /\ ~b.nan /\ a.v > b.v

Sub(a, b) == IF a.nan \/ b.nan THEN NaN ELSE Fix(a.v - b.v)
Add(a, b) == IF a.nan \/ b.nan THEN NaN ELSE Fix(a.v + b.v)
\* threshold * IQR, threshold a ratio [num, den]
Times(t, a) == IF a.nan THEN NaN ELSE Fix((t.num * a.v) \div t.den)

(***************************************************************************)
(* pandas: Series.quantile (linear interpolation, NaN skipped)             *)
(***************************************************************************)
NotNull(s) == {i \in DOMAIN s : ~s[i].nan}

\* the k-th smallest (k = 1 is the minimum) of the non-missing values of s
OrderStat(s, k) ==
    LET valid == NotNull(s)
    IN  CHOOSE u \in {s[i].v : i \in valid} :
            /\ Cardinality({i \in valid : s[i].v < u}) < k
            /\ Cardinality({i \in valid : s[i].v <= u}) >= k

Quantile(s, q) ==
    LET n == Cardinality(NotNull(s))
    IN  IF n = 0 THEN NaN
        ELSE LET lo == (q.num * (n - 1)) \div q.den
                 fr == (q.num * (n - 1)) % q.den
                 a  == OrderStat(s, lo + 1)
                 b  == OrderStat(s, IF lo + 2 <= n THEN lo + 2 ELSE n)
             IN  Fix(a + (fr * (b - a)) \div q.den)

Quarter == [num |-> 1, den |-> 4]
ThreeQuarters == [num |-> 3, den |-> 4]

(***************************************************************************)
(* handle_outliers                                                         *)
(***************************************************************************)
DefaultThreshold == [num |-> 3, den |-> 2]

LowerBound(s, threshold) ==
    LET Q1 == Quantile(s, Quarter)
        Q3 == Quantile(s, ThreeQuarters)
        IQR == Sub(Q3, Q1)
    IN  Sub(Q1, Times(threshold, IQR))

UpperBoundNoThreshold(s, threshold) ==
    LET Q1 == Quantile(s, Quarter)
        Q3 == Quantile(s, ThreeQuarters)
    IN  Add(Q3, Sub(Q3, Q1))

UpperBound(s, threshold) ==
    LET Q1 == Quantile(s, Quarter)
        Q3 == Quantile(s, ThreeQuarters)
        IQR == Sub(Q3, Q1)
    IN  Add(Q3, Times(threshold, IQR))

\* np.where(c < lower, lower, np.where(c > upper, upper, c))
CapUpperOnly(c, lower, upper) == IF Gt(c, upper) THEN upper ELSE c

Cap(c, lower, upper) ==
    IF Lt(c, lower) THEN lower ELSE IF Gt(c, upper) THEN upper ELSE c

\* the rows logged as outliers
Outliers(s, lower, upper) == {i \in DOMAIN s : Lt(s[i], lower) \/ Gt(s[i], upper)}

\* the loop body, were it to drop the outlier rows instead of capping them
CapColumnDropsRows(df, col, method, threshold) ==
    IF method = "iqr"
    THEN LET lower == LowerBound(df[col], threshold)
             upper == UpperBound(df[col], threshold)
             kept == DOMAIN df[col] \ Outliers(df[col], lower, upper)
         IN  [c \in DOMAIN df |-> [i \in kept |-> df[c][i]]]
    ELSE df

\* one pass of the loop body over column col of frame df
CapColumn(df, col, method, threshold) ==
    IF method = "iqr"
    THEN LET lower == LowerBound(df[col], threshold)
             upper == UpperBound(df[col], threshold)
         IN  [df EXCEPT ![col] = [i \in DOMAIN df[col] |-> Cap(df[col][i], lower, upper)]]
    ELSE df

\* the for loop over columns, on the frame data_clean
RECURSIVE CapColumns(_, _, _, _)
CapColumns(df, columns, method, threshold) ==
    IF columns = <<>> THEN df
    ELSE CapColumns(CapColumn(df, Head(columns), method, threshold),
                    Tail(columns), method, threshold)

\* the log entries of the loop: one per column that has outliers
RECURSIVE OutlierLog(_, _, _, _)
OutlierLog(df, columns, method, threshold) ==
    IF columns = <<>> THEN <<>>
    ELSE LET col == Head(columns)
             n == IF method = "iqr"
                  THEN Cardinality(Outliers(df[col], LowerBound(df[col], threshold),
                                            UpperBound(df[col], threshold)))
                  ELSE 0
             entry == IF n > 0
                      THEN <<[level |-> "INFO", msg |-> "Found outliers", column |-> col, count |-> n]>>
                      ELSE <<>>
         IN  entry \o OutlierLog(CapColumn(df, col, method, threshold),
                                 Tail(columns), method, threshold)

\* data.copy(): the reference of the new object
CopyAliases(ref, fresh) == ref

Copy(ref, fresh) == fresh

\* the whole of handle_outliers on the frame at reference ref: the new heap
HandleOutliersHeap(ref, columns, method, threshold) ==
    LET data_clean == Copy(ref, "copy")
    IN  [heap EXCEPT ![data_clean] = CapColumns(heap[ref], columns, method, threshold)]

(***************************************************************************)
(* Inputs                                                                  *)
(***************************************************************************)
\* the cells a column of the input may hold: a missing value or 0..MaxVal
CellOf(code) == IF code = 0 THEN NaN ELSE Num(code - 1)
NCells == MaxVal + 2

\* the non-decreasing sequences of length n over 1..k
RECURSIVE NonDecreasing(_, _)
NonDecreasing(n, k) ==
    IF n = 0 THEN {<<>>}
    ELSE UNION {{Append(s, j) : s \in NonDecreasing(n - 1, j)} : j \in 1..k}

\* the extreme cells: missing, the least and the greatest value
ExtremeCellOf(code) == IF code = 0 THEN NaN ELSE IF code = 1 THEN Num(0) ELSE Num(MaxVal)
NExtremeCells == Cardinality({ExtremeCellOf(code) : code \in 0..2})

\* frames with the feature columns x1 and x2, for a direct call of
\* handle_outliers; rows in non-decreasing order of their codes (x1, then x2)
PairFrame(codes) ==
    [c \in {"x1", "x2"} |->
        [i \in DOMAIN codes |->
            IF c = "x1" THEN CellOf((codes[i] - 1) \div NExtremeCells)
            ELSE ExtremeCellOf((codes[i] - 1) % NExtremeCells)]]

PairFrames ==
    {PairFrame(codes) :
        codes \in UNION {NonDecreasing(n, NCells * NExtremeCells) : n \in 0..MaxLen}}

\* section 8's example column, beside a second column
ExampleColumn == <<Num(1), Num(2), Num(3), Num(4), Num(100)>>
ExampleFrame == [c \in {"x1", "x2"} |-> IF c = "x1" THEN ExampleColumn ELSE [i \in 1..5 |-> Num(0)]]

\* each column listed at most once, as X.select_dtypes(...).columns.tolist() lists them
ColumnLists == {<<>>, <<"x1">>, <<"x2">>, <<"x1", "x2">>}
MaxThreshold == 4
Thresholds == {[num |-> n, den |-> 2] : n \in 0..MaxThreshold}

Sites == {"caller", "read_csv", "drop", "copy"}
EmptyHeap == [s \in Sites |-> None]
UnfitScaler == [fitted |-> FALSE, fits |-> 0, mean_ |-> None, var_ |-> None, n_samples_seen_ |-> None]

(***************************************************************************)
(* A direct call handle_outliers(data, columns, method, threshold)         *)
(***************************************************************************)
InitCall ==
    /\ run = "handle_outliers"
    /\ pc = "call"
    /\ \E df \in PairFrames \cup {ExampleFrame} :
           /\ file = [status |-> "ok", frame |-> df]
           /\ heap = [EmptyHeap EXCEPT !["caller"] = df]
    /\ \/ \E cols \in ColumnLists, t \in Thresholds :
              args = [columns |-> cols, method |-> "iqr", threshold |-> t]
       \/ \E cols \in ColumnLists :
              args = [columns |-> cols, method |-> "zscore", threshold |-> DefaultThreshold]
    /\ data = "None"
    /\ X = "caller"
    /\ result = "None"
    /\ y = None
    /\ missing = None
    /\ split = None
    /\ scaler = UnfitScaler
    /\ scaled = None
    /\ returned = FALSE
    /\ written = {}
    /\ exception = "none"
    /\ log = <<>>
    /\ trace = <<>>

CallHandleOutliers ==
    /\ pc = "call"
    /\ heap' = HandleOutliersHeap(X, args.columns, args.method, args.threshold)
    /\ result' = Copy(X, "copy")
    /\ log' = log \o OutlierLog(heap[X], args.columns, args.method, args.threshold)
    /\ trace' = Append(trace, [fn |-> "handle_outliers", outcome |-> "return"])
    /\ pc' = "returned"
    /\ UNCHANGED <<run, file, args, data, X, y, missing, split, scaler, scaled,
                   returned, written, exception>>

NextCall == CallHandleOutliers

SpecCall == InitCall /\ [][NextCall]_vars

(***************************************************************************)
(* The CSV file                                                            *)
(***************************************************************************)
\* the file's columns, in their order in the file
ColumnOrder == <<"customer_id", "x1", "x2", "default">>

\* a file of rows (customer_id, x1, default), rows in non-decreasing order of
\* their codes (x1, then default); x1 is an extreme cell, default is 0 or 1
LoanFrame(codes) ==
    [c \in {"customer_id", "x1", "default"} |->
        [i \in DOMAIN codes |->
            IF c = "customer_id" THEN Num(i)
            ELSE IF c = "x1" THEN ExtremeCellOf((codes[i] - 1) \div 2)
            ELSE Num((codes[i] - 1) % 2)]]

LoanFrames ==
    {LoanFrame(codes) : codes \in UNION {NonDecreasing(n, NExtremeCells * 2) : n \in 0..MaxRows}}

NoFrame == <<>>
Files ==
    {[status |-> "ok", frame |-> df] : df \in LoanFrames}
        \cup {[status |-> "missing", frame |-> NoFrame],
              [status |-> "malformed", frame |-> NoFrame]}

\* the exception pd.read_csv raises
ReadError(status) == IF status = "missing" THEN "FileNotFoundError" ELSE "ParserError"

Entry(level, msg) == [level |-> level, msg |-> msg]
Call(fn, outcome) == [fn |-> fn, outcome |-> outcome]

\* __main__ has no try/except: an exception that leaves a call ends the script
UncaughtContinues(next) == next

Uncaught(next) == "aborted"

(***************************************************************************)
(* load_data (preprocess.py and eda.py hold the same function)             *)
(***************************************************************************)
AfterLoad == IF run = "preprocess" THEN "check_missing_values" ELSE "explore_data"

LoadDataSwallows ==
    /\ pc = "load_data"
    /\ IF file.status = "ok"
       THEN /\ heap' = [heap EXCEPT !["read_csv"] = file.frame]
            /\ data' = "read_csv"
            /\ log' = log \o <<Entry("INFO", "Loading data"),
                               Entry("INFO", "Data loaded successfully")>>
            /\ trace' = Append(trace, Call("load_data", "return"))
            /\ pc' = AfterLoad
            /\ UNCHANGED exception
       ELSE /\ log' = log \o <<Entry("INFO", "Loading data"),
                               Entry("ERROR", "Error loading data")>>
            /\ trace' = Append(trace, Call("load_data", "return"))
            /\ pc' = "done"
            /\ UNCHANGED <<heap, data, exception>>
    /\ UNCHANGED <<run, file, args, X, result, y, missing, split, scaler, scaled,
                   returned, written>>

LoadData ==
    /\ pc = "load_data"
    /\ IF file.status = "ok"
       THEN /\ heap' = [heap EXCEPT !["read_csv"] = file.frame]
            /\ data' = "read_csv"
            /\ log' = log \o <<Entry("INFO", "Loading data"),
                               Entry("INFO", "Data loaded successfully")>>
            /\ trace' = Append(trace, Call("load_data", "return"))
            /\ pc' = AfterLoad
            /\ UNCHANGED exception
       ELSE /\ log' = log \o <<Entry("INFO", "Loading data"),
                               Entry("ERROR", "Error loading data")>>
            /\ exception' = ReadError(file.status)
            /\ trace' = Append(trace, Call("load_data", "raise"))
            /\ pc' = Uncaught(AfterLoad)
            /\ UNCHANGED <<heap, data>>
    /\ UNCHANGED <<run, file, args, X, result, y, missing, split, scaler, scaled,
                   returned, written>>

(***************************************************************************)
(* check_missing_values                                                    *)
(***************************************************************************)
\* data.isnull().sum()
IsNullSum(df) == [c \in DOMAIN df |-> Cardinality({i \in DOMAIN df[c] : df[c][i].nan})]

\* missing.sum()
RECURSIVE SumOver(_, _)
SumOver(f, S) ==
    IF S = {} THEN 0
    ELSE LET c == CHOOSE c \in S : TRUE IN f[c] + SumOver(f, S \ {c})

CheckMissingValuesRaises ==
    /\ pc = "check_missing_values"
    /\ LET counts == IsNullSum(heap[data])
       IN  IF SumOver(counts, DOMAIN counts) > 0
           THEN /\ log' = log \o <<Entry("INFO", "Starting data preprocessing"),
                                   Entry("ERROR", "Missing values found")>>
                /\ exception' = "ValueError"
                /\ trace' = Append(trace, Call("preprocess_data", "raise"))
                /\ pc' = "aborted"
                /\ UNCHANGED missing
           ELSE /\ log' = log \o <<Entry("INFO", "Starting data preprocessing"),
                                   Entry("INFO", "No missing values found")>>
                /\ missing' = counts
                /\ pc' = "extract"
                /\ UNCHANGED <<exception, trace>>
    /\ UNCHANGED <<run, file, args, heap, data, X, result, y, split, scaler, scaled,
                   returned, written>>

\* preprocess_data's first statements: the log entry and check_missing_values(data)
CheckMissingValues ==
    /\ pc = "check_missing_values"
    /\ LET counts == IsNullSum(heap[data])
       IN  /\ log' = log \o <<Entry("INFO", "Starting data preprocessing"),
                              IF SumOver(counts, DOMAIN counts) > 0
                              THEN Entry("WARNING", "Missing values found")
                              ELSE Entry("INFO", "No missing values found")>>
           /\ missing' = counts
    /\ pc' = "extract"
    /\ UNCHANGED <<run, file, args, heap, data, X, result, y, split, scaler, scaled,
                   returned, written, exception, trace>>

(***************************************************************************)
(* preprocess_data                                                         *)
(***************************************************************************)
\* data.drop(columns=...): a new frame without these columns
Drop(df, columns) == [c \in DOMAIN df \ columns |-> df[c]]

\* X.select_dtypes(include=['float64', 'int64']).columns.tolist(): every column
\* of the model is numeric
NumericalCols(df) == SelectSeq(ColumnOrder, LAMBDA c : c \in DOMAIN df)

ExtractFeatures ==
    /\ pc = "extract"
    /\ heap' = [heap EXCEPT !["drop"] = Drop(heap[data], {"default", "customer_id"})]
    /\ X' = "drop"
    /\ y' = heap[data]["default"]
    /\ log' = Append(log, Entry("INFO", "Features shape"))
    /\ args' = [args EXCEPT !.columns = NumericalCols(heap'["drop"])]
    /\ pc' = "handle_outliers"
    /\ UNCHANGED <<run, file, data, result, missing, split, scaler, scaled, returned,
                   written, exception, trace>>

\* a call handle_outliers(X, numerical_cols) whose result is dropped
PreprocessHandleOutliersDropsResult ==
    /\ pc = "handle_outliers"
    /\ heap' = HandleOutliersHeap(X, args.columns, args.method, args.threshold)
    /\ result' = Copy(X, "copy")
    /\ log' = log \o OutlierLog(heap[X], args.columns, args.method, args.threshold)
    /\ pc' = "train_test_split"
    /\ UNCHANGED <<run, file, args, data, X, y, missing, split, scaler, scaled, returned,
                   written, exception, trace>>

\* X = handle_outliers(X, numerical_cols)
PreprocessHandleOutliers ==
    /\ pc = "handle_outliers"
    /\ heap' = HandleOutliersHeap(X, args.columns, args.method, args.threshold)
    /\ result' = Copy(X, "copy")
    /\ X' = Copy(X, "copy")
    /\ log' = log \o OutlierLog(heap[X], args.columns, args.method, args.threshold)
    /\ pc' = "train_test_split"
    /\ UNCHANGED <<run, file, args, data, y, missing, split, scaler, scaled, returned,
                   written, exception, trace>>

(***************************************************************************)
(* sklearn: train_test_split(X, y, test_size, random_state, stratify=y)    *)
(***************************************************************************)
TestSize == [num |-> 1, den |-> 5]

\* n_test = ceil(test_size * n_samples), n_train = n_samples - n_test
NTest(n) == (TestSize.num * n + TestSize.den - 1) \div TestSize.den
NTrain(n) == n - NTest(n)

Classes(labels) == {labels[i] : i \in DOMAIN labels}
ClassRows(labels, c) == {i \in DOMAIN labels : labels[i] = c}

\* the ValueErrors of the size validation and of the stratified splitter
SplitFails(labels) ==
    LET n == Cardinality(DOMAIN labels)
        classes == Classes(labels)
    IN  \/ n = 0
        \/ NTrain(n) = 0
        \/ \E c \in classes : Cardinality(ClassRows(labels, c)) < 2
        \/ NTrain(n) < Cardinality(classes)
        \/ NTest(n) < Cardinality(classes)

\* The training rows a stratified shuffle may draw.  Each class gives
\* floor(n_train * count / n) rows, and the classes with the greatest remainders
\* give one more until n_train rows are drawn (ties broken by the random state);
\* which rows of a class are drawn is the random state's choice.
TrainSets(labels) ==
    LET index == DOMAIN labels
        n == Cardinality(index)
        share(c) == (NTrain(n) * Cardinality(ClassRows(labels, c))) \div n
        rest(c) == (NTrain(n) * Cardinality(ClassRows(labels, c))) % n
        drawn(S, c) == Cardinality(S \cap ClassRows(labels, c))
    IN  {S \in SUBSET index :
            /\ Cardinality(S) = NTrain(n)
            /\ \A c \in Classes(labels) : drawn(S, c) \in {share(c), share(c) + 1}
            /\ \A c, d \in Classes(labels) :
                  (drawn(S, c) = share(c) + 1 /\ drawn(S, d) = share(d)) => rest(c) >= rest(d)}

\* the test rows: with n_test = n_samples - n_train, every row not drawn for training
TestRowsDrawnAgain(index, train) == {i \in index : i <= Cardinality(index) - Cardinality(train)}

TestRows(index, train) == index \ train

\* DataFrame.iloc / Series.iloc on a set of rows: the index labels are kept
TakeFrame(df, rows) == [c \in DOMAIN df |-> [i \in rows |-> df[c][i]]]
TakeSeries(series, rows) == [i \in rows |-> series[i]]

TrainTestSplit ==
    /\ pc = "train_test_split"
    /\ IF SplitFails(y)
       THEN /\ exception' = "ValueError"
            /\ trace' = Append(trace, Call("preprocess_data", "raise"))
            /\ pc' = Uncaught("save_processed_data")
            /\ UNCHANGED <<split, log>>
       ELSE /\ \E train \in TrainSets(y) :
                  LET test == TestRows(DOMAIN y, train)
                  IN  split' = [X_train |-> TakeFrame(heap[X], train),
                                X_test |-> TakeFrame(heap[X], test),
                                y_train |-> TakeSeries(y, train),
                                y_test |-> TakeSeries(y, test)]
            /\ log' = Append(log, Entry("INFO", "Train set, Test set"))
            /\ pc' = "fit_transform"
            /\ UNCHANGED <<exception, trace>>
    /\ UNCHANGED <<run, file, args, heap, data, X, result, y, missing, scaler, scaled,
                   returned, written>>

(***************************************************************************)
(* sklearn: StandardScaler.  mean_ and var_ are exact ratios [nan, num,    *)
(* den] in lowest terms (in units of 1/Unit and their squares); a scaled   *)
(* cell [nan, num, den, var] stands for (num/den) / sqrt(var), and for     *)
(* num/den when var is zero (scale_ is then 1).  Missing values are left   *)
(* out of fit and kept by transform.                                       *)
(***************************************************************************)
RECURSIVE GCD(_, _)
GCD(a, b) == IF b = 0 THEN a ELSE GCD(b, a % b)
Abs(a) == IF a < 0 THEN -a ELSE a

NaNRatio == [nan |-> TRUE, num |-> 0, den |-> 1]
Ratio(num, den) ==
    LET g == GCD(Abs(num), den)
    IN  [nan |-> FALSE, num |-> num \div g, den |-> den \div g]

RECURSIVE SumOf(_, _, _)
SumOf(series, rows, power) ==
    IF rows = {} THEN 0
    ELSE LET i == CHOOSE i \in rows : TRUE
         IN  (IF power = 2 THEN series[i].v * series[i].v ELSE series[i].v)
                 + SumOf(series, rows \ {i}, power)

Mean(series) ==
    LET rows == NotNull(series)
        n == Cardinality(rows)
    IN  IF n = 0 THEN NaNRatio ELSE Ratio(SumOf(series, rows, 1), n)

Var(series) ==
    LET rows == NotNull(series)
        n == Cardinality(rows)
        sum == SumOf(series, rows, 1)
    IN  IF n = 0 THEN NaNRatio ELSE Ratio(n * SumOf(series, rows, 2) - sum * sum, n * n)

\* scaler.fit(X): resets the state and computes it from X alone
Fit(sc, df) ==
    [fitted |-> TRUE,
     fits |-> sc.fits + 1,
     mean_ |-> [c \in DOMAIN df |-> Mean(df[c])],
     var_ |-> [c \in DOMAIN df |-> Var(df[c])],
     n_samples_seen_ |-> [c \in DOMAIN df |-> Cardinality(NotNull(df[c]))]]

NaNScaled == [nan |-> TRUE, num |-> 0, den |-> 1, var |-> NaNRatio]
ScaledCell(cell, mean, var) ==
    IF cell.nan \/ mean.nan \/ var.nan THEN NaNScaled
    ELSE LET centred == Ratio(cell.v * mean.den - mean.num, mean.den)
         IN  [nan |-> FALSE, num |-> centred.num, den |-> centred.den, var |-> var]

\* scaler.transform(X): reads the state, leaves it as it is
Transform(sc, df) ==
    [c \in DOMAIN df |-> [i \in DOMAIN df[c] |-> ScaledCell(df[c][i], sc.mean_[c], sc.var_[c])]]

\* scaler = StandardScaler(); X_train_scaled = scaler.fit_transform(X_train)
FitTransform ==
    /\ pc = "fit_transform"
    /\ scaler' = Fit(UnfitScaler, split.X_train)
    /\ scaled' = [X_train_scaled |-> Transform(scaler', split.X_train),
                  X_test_scaled |-> NoFrame]
    /\ pc' = "transform"
    /\ UNCHANGED <<run, file, args, heap, data, X, result, y, missing, split, returned,
                   written, exception, log, trace>>

\* X_test_scaled = scaler.fit_transform(X_test): the scaler fit again, on the test rows
TransformTestRefits ==
    /\ pc = "transform"
    /\ scaler' = Fit(scaler, split.X_test)
    /\ scaled' = [scaled EXCEPT !.X_test_scaled = Transform(scaler', split.X_test)]
    /\ pc' = "return"
    /\ UNCHANGED <<run, file, args, heap, data, X, result, y, missing, split, returned,
                   written, exception, log, trace>>

\* X_test_scaled = scaler.transform(X_test)
TransformTest ==
    /\ pc = "transform"
    /\ IF scaler.fitted
       THEN /\ scaled' = [scaled EXCEPT !.X_test_scaled = Transform(scaler, split.X_test)]
            /\ pc' = "return"
            /\ UNCHANGED <<exception, trace>>
       ELSE /\ exception' = "NotFittedError"
            /\ trace' = Append(trace, Call("preprocess_data", "raise"))
            /\ pc' = Uncaught("save_processed_data")
            /\ UNCHANGED scaled
    /\ UNCHANGED <<run, file, args, heap, data, X, result, y, missing, split, scaler,
                   returned, written, log>>

\* return X_train_scaled, X_test_scaled, y_train, y_test, scaler
ReturnPreprocessed ==
    /\ pc = "return"
    /\ log' = Append(log, Entry("INFO", "Data preprocessing completed"))
    /\ returned' = TRUE
    /\ trace' = Append(trace, Call("preprocess_data", "return"))
    /\ pc' = "save_processed_data"
    /\ UNCHANGED <<run, file, args, heap, data, X, result, y, missing, split, scaler,
                   scaled, written, exception>>

(***************************************************************************)
(* save_processed_data                                                     *)
(***************************************************************************)
\* the files in the order they are written, each with what is written
OutputFiles ==
    <<[name |-> "X_train.csv", content |-> scaled.X_train_scaled],
      [name |-> "X_test.csv", content |-> scaled.X_test_scaled],
      [name |-> "y_train.csv", content |-> split.y_train],
      [name |-> "y_test.csv", content |-> split.y_test],
      [name |-> "scaler.pkl", content |-> scaler]>>

\* the writes that succeed before the file system fails: done of them, all when
\* it does not fail
SaveProcessedData ==
    /\ pc = "save_processed_data"
    /\ \E done \in 0..Len(OutputFiles) :
          /\ written' = written \cup {OutputFiles[k] : k \in 1..done}
          /\ IF done = Len(OutputFiles)
             THEN /\ log' = log \o <<Entry("INFO", "Saving processed data"),
                                     Entry("INFO", "All processed data saved successfully")>>
                  /\ trace' = Append(trace, Call("save_processed_data", "return"))
                  /\ pc' = "done"
                  /\ UNCHANGED exception
             ELSE /\ log' = Append(log, Entry("INFO", "Saving processed data"))
                  /\ exception' = "OSError"
                  /\ trace' = Append(trace, Call("save_processed_data", "raise"))
                  /\ pc' = Uncaught("done")
    /\ UNCHANGED <<run, file, args, heap, data, X, result, y, missing, split, scaler,
                   scaled, returned>>

(***************************************************************************)
(* explore_data                                                            *)
(***************************************************************************)
\* data['default'].value_counts()
ValueCounts(series) ==
    [c \in Classes(series) |-> Cardinality(ClassRows(series, c))]

\* the artifacts, in the order they are written; the figures are opaque
Artifacts(df) ==
    LET feature_cols == SelectSeq(NumericalCols(df),
                                  LAMBDA c : c \notin {"customer_id", "default"})
        figure(name) == [name |-> name, content |-> "figure"]
    IN  <<[name |-> "basic_statistics.csv",
           content |-> [c \in DOMAIN df |-> [count |-> Cardinality(NotNull(df[c])),
                                             mean |-> Mean(df[c])]]],
          figure("target_distribution.png"),
          figure("correlation_matrix.png")>>
        \o [k \in DOMAIN feature_cols |->
               [name |-> "dist_{col}.png", col |-> feature_cols[k], content |-> "figure"]]
        \o [k \in DOMAIN feature_cols |->
               [name |-> "boxplot_{col}.png", col |-> feature_cols[k], content |-> "figure"]]
        \o <<[name |-> "eda_summary.txt",
              content |-> [shape |-> <<Cardinality(DOMAIN df["default"]), Cardinality(DOMAIN df)>>,
                           missing |-> IsNullSum(df),
                           target |-> ValueCounts(df["default"])]]>>

ExploreData ==
    /\ pc = "explore_data"
    /\ \E done \in 0..Len(Artifacts(heap[data])) :
          /\ written' = written \cup {Artifacts(heap[data])[k] : k \in 1..done}
          /\ IF done = Len(Artifacts(heap[data]))
             THEN /\ log' = log \o <<Entry("INFO", "Starting exploratory data analysis"),
                                     Entry("INFO", "EDA completed successfully")>>
                  /\ trace' = Append(trace, Call("explore_data", "return"))
                  /\ pc' = "done"
                  /\ UNCHANGED exception
             ELSE /\ log' = Append(log, Entry("INFO", "Starting exploratory data analysis"))
                  /\ exception' = "OSError"
                  /\ trace' = Append(trace, Call("explore_data", "raise"))
                  /\ pc' = Uncaught("done")
    /\ UNCHANGED <<run, file, args, heap, data, X, result, y, missing, split, scaler,
                   scaled, returned>>

(***************************************************************************)
(* The two scripts                                                         *)
(***************************************************************************)
Init ==
    /\ run \in {"preprocess", "eda"}
    /\ pc = "load_data"
    /\ file \in Files
    /\ args = [columns |-> <<>>, method |-> "iqr", threshold |-> DefaultThreshold]
    /\ heap = EmptyHeap
    /\ data = "None"
    /\ X = "None"
    /\ result = "None"
    /\ y = None
    /\ missing = None
    /\ split = None
    /\ scaler = UnfitScaler
    /\ scaled = None
    /\ returned = FALSE
    /\ written = {}
    /\ exception = "none"
    /\ log = <<>>
    /\ trace = <<>>

Next ==
    \/ LoadData
    \/ CheckMissingValues
    \/ ExtractFeatures
    \/ PreprocessHandleOutliers
    \/ TrainTestSplit
    \/ FitTransform
    \/ TransformTest
    \/ ReturnPreprocessed
    \/ SaveProcessedData
    \/ ExploreData

Spec == Init /\ [][Next]_vars

(***************************************************************************)
(* Claims about handle_outliers, checked under SpecCall                    *)
(***************************************************************************)
Range(seq) == {seq[i] : i \in DOMAIN seq}
Within(c, lower, upper) ==
    ~c.nan /\ ~lower.nan /\ ~upper.nan /\ lower.v <= c.v /\ c.v <= upper.v

\* handle_outliers(data, columns, 'iqr', k) has returned
IqrReturned == pc = "returned" /\ args.method = "iqr"
In == file.frame
Out == heap[result]

\* C1, as stated: after handle_outliers(data, columns, 'iqr', k), k >= 0, every
\* value of every listed column lies within [lower, upper], the bounds computed
\* from that column of the input.
C1_AllValuesWithinBounds ==
    IqrReturned =>
        \A col \in Range(args.columns) : \A i \in DOMAIN Out[col] :
            Within(Out[col][i], LowerBound(In[col], args.threshold),
                   UpperBound(In[col], args.threshold))

\* C1, amended: every non-missing value of every listed column lies within
\* [lower, upper]; a missing value stays missing (and lies in no interval).
C1_PresentValuesWithinBounds ==
    IqrReturned =>
        \A col \in Range(args.columns) : \A i \in DOMAIN Out[col] :
            IF In[col][i].nan THEN Out[col][i].nan
            ELSE Within(Out[col][i], LowerBound(In[col], args.threshold),
                        UpperBound(In[col], args.threshold))

\* a listed column had a value above its upper bound and one below its lower bound
C1_Witness ==
    /\ IqrReturned
    /\ \E col \in Range(args.columns) :
          /\ \E i \in DOMAIN In[col] : Gt(In[col][i], UpperBound(In[col], args.threshold))
          /\ \E i \in DOMAIN In[col] : In[col][i].nan
          /\ \E i \in DOMAIN In[col] : Out[col][i] # In[col][i]

ExampleCall ==
    /\ pc = "returned"
    /\ In = ExampleFrame
    /\ "x1" \in Range(args.columns)
    /\ args.method = "iqr"
    /\ args.threshold = DefaultThreshold

C9_ExampleColumn ==
    ExampleCall =>
        /\ Quantile(In["x1"], Quarter) = Num(2)
        /\ Quantile(In["x1"], ThreeQuarters) = Num(4)
        /\ Sub(Quantile(In["x1"], ThreeQuarters), Quantile(In["x1"], Quarter)) = Num(2)
        /\ UpperBound(In["x1"], args.threshold) = Num(7)
        /\ LowerBound(In["x1"], args.threshold) = Num(-1)
        /\ Out["x1"] = <<Num(1), Num(2), Num(3), Num(4), Num(7)>>

C9_Witness == ExampleCall /\ Out["x1"][5] # In["x1"][5]

(***************************************************************************)
(* Claims about the two scripts, checked under Spec                        *)
(***************************************************************************)
Loaded == data # "None"
OutliersHandled == result # "None"
SplitDone == pc \in {"fit_transform", "transform", "return"} \/ returned
TestScaled == pc = "return" \/ returned
NotFeatures == {"default", "customer_id"}
Levels(level) == {k \in DOMAIN log : log[k].level = level}
Messages(msg) == {k \in DOMAIN log : log[k].msg = msg}
Calls(fn) == {k \in DOMAIN trace : trace[k].fn = fn}

\* C3: the dataset a caller passes to handle_outliers, preprocess_data or
\* explore_data holds the same rows, columns and values after the call as before.
C3_DatasetNeverMutated ==
    /\ Loaded => heap[data] = file.frame
    /\ OutliersHandled => heap["drop"] = Drop(file.frame, NotFeatures)

\* handle_outliers has capped a value of the frame it was passed, and
\* preprocess_data has returned
C3_Witness ==
    /\ returned
    /\ heap[result] # heap["drop"]

\* C4: when preprocess_data succeeds the train and test partitions are
\* disjoint and together cover the dataset, their sizes sum to the row count,
\* and y_train / y_test hold the labels of the rows of X_train / X_test.
C4_PartitionsDisjointAndCover ==
    returned =>
        LET index == DOMAIN file.frame["default"]
            train == DOMAIN split.y_train
            test == DOMAIN split.y_test
        IN  /\ Cardinality(train) + Cardinality(test) = Cardinality(index)
            /\ train \cap test = {}
            /\ train \cup test = index
            /\ \A c \in DOMAIN split.X_train :
                  /\ DOMAIN split.X_train[c] = train
                  /\ DOMAIN scaled.X_train_scaled[c] = train
                  /\ \A i \in train : split.X_train[c][i] = heap[X][c][i]
            /\ \A c \in DOMAIN split.X_test :
                  /\ DOMAIN split.X_test[c] = test
                  /\ DOMAIN scaled.X_test_scaled[c] = test
                  /\ \A i \in test : split.X_test[c][i] = heap[X][c][i]
            /\ \A i \in train : split.y_train[i] = file.frame["default"][i]
            /\ \A i \in test : split.y_test[i] = file.frame["default"][i]

\* preprocess_data has returned partitions that each hold both classes
C4_Witness ==
    /\ returned
    /\ Cardinality(Classes(split.y_train)) = 2
    /\ Cardinality(Classes(split.y_test)) = 2

\* C5: the scaler is fit once, on the training partition only, before any
\* transform; transforming the test partition uses these parameters and leaves
\* the scaler as it is; the scaler returned and written is the one fit on the
\* training rows.
C5_ScalerFitOnTrainOnly ==
    IF ~scaler.fitted
    THEN scaled = None /\ \A f \in written : f.name # "scaler.pkl"
    ELSE LET fit == Fit(UnfitScaler, split.X_train)
         IN  /\ scaler = fit
             /\ scaler.fits = 1
             /\ scaled.X_train_scaled = Transform(fit, split.X_train)
             /\ TestScaled => scaled.X_test_scaled = Transform(fit, split.X_test)
             /\ \A f \in written : f.name = "scaler.pkl" => f.content = fit

\* the scaler is written, and fit on the test rows or on all rows it would differ
C5_Witness ==
    /\ \E f \in written : f.name = "scaler.pkl"
    /\ Fit(UnfitScaler, split.X_test).mean_ # scaler.mean_
    /\ Fit(UnfitScaler, heap[X]).mean_ # scaler.mean_
    /\ Fit(UnfitScaler, heap[X]).var_ # scaler.var_

\* C6: when the read fails load_data logs one error entry and re-raises the
\* failure: it returns no dataset, does not read again and does not swallow the
\* error; when the read succeeds it returns the dataset and logs no error.
C6_LoadFailureLoggedAndReraised ==
    pc # "load_data" =>
        /\ Cardinality(Messages("Loading data")) = 1
        /\ Cardinality(Calls("load_data")) = 1
        /\ IF file.status = "ok"
           THEN /\ trace[1] = Call("load_data", "return")
                /\ Loaded
                /\ heap[data] = file.frame
                /\ Levels("ERROR") = {}
           ELSE /\ trace = <<Call("load_data", "raise")>>
                /\ exception = ReadError(file.status)
                /\ ~Loaded
                /\ Cardinality(Levels("ERROR")) = 1
                /\ pc = "aborted"

C6_Witness == pc = "aborted" /\ file.status = "malformed" /\ exception = "ParserError"

\* C7: once a step fails no later step is executed and the run is not resumed:
\* a call that raised is the last call of the run; the output files of the
\* preprocessing run are written only after load_data and preprocess_data have
\* both returned; no step is called twice.
C7_FailFast ==
    /\ \A k \in DOMAIN trace : trace[k].outcome = "raise" => k = Len(trace)
    /\ exception # "none" <=> (trace # <<>> /\ trace[Len(trace)].outcome = "raise")
    /\ exception # "none" => pc = "aborted"
    /\ \A fn \in {"load_data", "preprocess_data", "save_processed_data", "explore_data"} :
          Cardinality(Calls(fn)) <= 1
    /\ (run = "preprocess" /\ (written # {} \/ Calls("save_processed_data") # {})) =>
          /\ Len(trace) >= 3
          /\ trace[1] = Call("load_data", "return")
          /\ trace[2] = Call("preprocess_data", "return")
    /\ (run = "eda" /\ (written # {} \/ Calls("explore_data") # {})) =>
          /\ Len(trace) >= 2
          /\ trace[1] = Call("load_data", "return")

\* preprocess_data raised: save_processed_data was not called, nothing is written
C7_Witness ==
    /\ run = "preprocess"
    /\ trace = <<Call("load_data", "return"), Call("preprocess_data", "raise")>>
    /\ pc = "aborted"
    /\ written = {}

\* C8: check_missing_values logs a warning when a value is missing and an info
\* entry when none is, raises nothing and returns the missing count of every
\* column; preprocess_data goes on to the outlier handling, the split and the
\* scaling (it raises only in the split).
HasMissing == \E c \in DOMAIN file.frame : \E i \in DOMAIN file.frame[c] : file.frame[c][i].nan

C10_AllPartitionValuesWithinFullBounds ==
    SplitDone =>
        \A c \in DOMAIN split.X_train :
            LET lower == LowerBound(file.frame[c], DefaultThreshold)
                upper == UpperBound(file.frame[c], DefaultThreshold)
            IN  /\ \A i \in DOMAIN split.X_train[c] : Within(split.X_train[c][i], lower, upper)
                /\ \A i \in DOMAIN split.X_test[c] : Within(split.X_test[c][i], lower, upper)

\* C10, amended: capping happens before the split, with bounds computed over
\* all rows: every non-missing feature value of the training and of the test
\* partition lies within the bounds of the unsplit dataset, and a missing
\* value stays missing.
C10_PresentPartitionValuesWithinFullBounds ==
    /\ pc = "train_test_split" => (OutliersHandled /\ X = result /\ split = None)
    /\ SplitDone =>
          \A c \in DOMAIN split.X_train :
              LET lower == LowerBound(file.frame[c], DefaultThreshold)
                  upper == UpperBound(file.frame[c], DefaultThreshold)
                  capped == [i \in DOMAIN file.frame[c] |->
                               IF i \in DOMAIN split.X_train[c]
                               THEN split.X_train[c][i] ELSE split.X_test[c][i]]
              IN  /\ DOMAIN split.X_train[c] \cup DOMAIN split.X_test[c] = DOMAIN file.frame[c]
                  /\ \A i \in DOMAIN file.frame[c] :
                        IF file.frame[c][i].nan THEN capped[i].nan
                        ELSE /\ ~capped[i].nan
                             /\ lower.v <= capped[i].v
                             /\ capped[i].v <= upper.v

\* a value of a training row was capped to a bound that the training rows
\* alone would not give
C10_Witness ==
    /\ SplitDone
    /\ \E c \in DOMAIN split.X_train :
          /\ \E i \in DOMAIN split.X_train[c] : split.X_train[c][i] # file.frame[c][i]
          /\ UpperBound(TakeSeries(file.frame[c], DOMAIN split.X_train[c]), DefaultThreshold)
                 # UpperBound(file.frame[c], DefaultThreshold)

====
